---- MODULE Spec2Model ----
(***************************************************************************)
(* Model of InvoiceService (src/src/invioce_service.py): validation of an  *)
(* invoice followed by the subtotal / shipping / discount / tax / total    *)
(* pipeline of compute_total.                                              *)
(*                                                                         *)
(* Amounts are exact decimals (see below); the rate literals 0.07, 0.10,   *)
(* ... are the whole percentages 7, 10, ...                                *)
(* Strings that the code only compares or interpolates (sku, category,     *)
(* country, membership, ids) are TLA+ strings; the coupon, which the code  *)
(* strips, is a sequence of one-character strings.                         *)
(***************************************************************************)
EXTENDS Integers, Sequences, FiniteSets, TLC

VARIABLES
    inv,          \* the argument of compute_total
    pc,           \* position in compute_total
    problems,     \* _validate's list of problems
    error,        \* message of the ValueError raised, NoError if none
    subtotal, fragile_fee, shipping, discount, warnings, tax, total,
    clamped,      \* TRUE iff the branch "if total < 0: total = 0" was taken
    result        \* the returned pair <<total, warnings>>

vars == <<inv, pc, problems, error, subtotal, fragile_fee, shipping,
          discount, warnings, tax, total, clamped, result>>

\* Largest number of line items of an invoice.
MaxItems == 2

-----------------------------------------------------------------------------
\* Exact decimal arithmetic.  An amount is <<w, u>>, standing for
\* w + u / 10^6 with 0 <= u < 10^6.  Prices are whole cents and every rate
\* is a whole percentage, so subtotal, discount and tax are all multiples of
\* 10^-6 and no operation below rounds.

Scale == 1000 * 1000

Amt(w, u) == <<w + (u \div Scale), u % Scale>>

Whole(n) == <<n, 0>>
Cents(c) == <<c \div 100, (c % 100) * 10000>>

Add(a, b) == Amt(a[1] + b[1], a[2] + b[2])
Sub(a, b) == Amt(a[1] - b[1], a[2] - b[2])

\* a * k for an integer k
Times(a, k) == Amt(a[1] * k, a[2] * k)

\* a * (p / 100), the product with the float literal 0.0p
Percent(a, p) ==
    Amt((a[1] * p) \div 100,
        ((a[1] * p) % 100) * 10000 + (a[2] * p) \div 100)

Less(a, b) == a[1] < b[1] \/ (a[1] = b[1] /\ a[2] < b[2])

-----------------------------------------------------------------------------
\* Values standing for Python's None and for a local not yet assigned.

NoInvoice   == [absent |-> TRUE]
NoCoupon    == [none |-> TRUE]
NotComputed == <<>>
NoResult    == <<>>
NoError     == ""

Str(chars) == [none |-> FALSE, chars |-> chars]

-----------------------------------------------------------------------------
\* Configuration tables.

\* SHIPPING_RULES with the first US threshold written "<=" instead of "<"
SHIPPING_RULES_UsInclusive(country, sub) ==
    CASE country = "TH" -> IF Less(sub, Whole(500)) THEN Whole(60) ELSE Whole(0)
      [] country = "JP" -> IF Less(sub, Whole(4000)) THEN Whole(600) ELSE Whole(0)
      [] country = "US" -> IF ~Less(Whole(100), sub) THEN Whole(15)
                           ELSE IF Less(sub, Whole(300)) THEN Whole(8)
                           ELSE Whole(0)
      [] OTHER          -> IF Less(sub, Whole(200)) THEN Whole(25) ELSE Whole(0)

SHIPPING_RULES(country, sub) ==
    CASE country = "TH" -> IF Less(sub, Whole(500)) THEN Whole(60) ELSE Whole(0)
      [] country = "JP" -> IF Less(sub, Whole(4000)) THEN Whole(600) ELSE Whole(0)
      [] country = "US" -> IF Less(sub, Whole(100)) THEN Whole(15)
                           ELSE IF Less(sub, Whole(300)) THEN Whole(8)
                           ELSE Whole(0)
      [] OTHER          -> IF Less(sub, Whole(200)) THEN Whole(25) ELSE Whole(0)

TAX_RATE(country) ==
    CASE country = "TH" -> 7
      [] country = "JP" -> 10
      [] country = "US" -> 8
      [] OTHER          -> 5

MembershipTiers == {"gold", "platinum"}

MEMBERSHIP_DISCOUNT(m) ==
    CASE m = "gold"     -> 3
      [] m = "platinum" -> 5

CouponCodes ==
    { <<"W","E","L","C","O","M","E","1","0">>,
      <<"V","I","P","2","0">>,
      <<"S","T","U","D","E","N","T","5">> }

COUPON_RATE(code) ==
    CASE code = <<"W","E","L","C","O","M","E","1","0">> -> 10
      [] code = <<"V","I","P","2","0">>                 -> 20
      [] code = <<"S","T","U","D","E","N","T","5">>     -> 5

VALID_CATEGORIES == {"book", "food", "electronics", "other"}

-----------------------------------------------------------------------------
\* str.strip(): drop leading and trailing whitespace characters.

Whitespace == {" ", "\t", "\n"}

RECURSIVE LStrip(_)
LStrip(s) ==
    IF s # <<>> /\ Head(s) \in Whitespace THEN LStrip(Tail(s)) ELSE s

RECURSIVE RStrip(_)
RStrip(s) ==
    IF s # <<>> /\ s[Len(s)] \in Whitespace
    THEN RStrip(SubSeq(s, 1, Len(s) - 1))
    ELSE s

\* str.lstrip() in place of str.strip()
StripLeftOnly(s) == LStrip(s)

Strip(s) == RStrip(LStrip(s))

\* "; ".join(list)
RECURSIVE Join(_)
Join(list) ==
    IF list = <<>> THEN ""
    ELSE IF Len(list) = 1 THEN list[1]
    ELSE list[1] \o "; " \o Join(Tail(list))

-----------------------------------------------------------------------------
\* Inputs.

LineItem(sku, category, cents, qty, fragile) ==
    [sku |-> sku, category |-> category, unit_price |-> Cents(cents),
     qty |-> qty, fragile |-> fragile]

ValidItems ==
    { LineItem("A", "book",        10000,   2, TRUE),
      LineItem("B", "food",        9999,    1, FALSE),
      LineItem("C", "other",       10000,   1, TRUE),
      LineItem("D", "electronics", 29999,   1, FALSE),
      LineItem("E", "book",        30000,   1, FALSE),
      LineItem("F", "electronics", 100000,  1, FALSE),
      LineItem("G", "electronics", 300000,  1, FALSE),
      LineItem("H", "other",       350000,  1, FALSE),
      LineItem("K", "electronics", 500000,  2, TRUE),
      LineItem("L", "electronics", 1000100, 1, FALSE),
      LineItem("Z", "food",        0,       1, FALSE) }

DefectItems ==
    { LineItem("",  "book", 100,  1,  FALSE),
      LineItem("Q", "book", 100,  0,  FALSE),
      LineItem("P", "food", -1,   1,  TRUE),
      LineItem("U", "toy",  100,  1,  FALSE),
      LineItem("",  "toy",  -500, -1, FALSE),
      LineItem("M", "",     100,  -2, FALSE) }

Countries   == {"TH", "JP", "US", "DE", ""}
Memberships == {"", "gold", "platinum", "silver"}

Coupons ==
    { NoCoupon,
      Str(<<>>),
      Str(<<"V","I","P","2","0"," ">>),
      Str(<<"v","i","p","2","0"," ">>),
      Str(<<"W","E","L","C","O","M","E","1","0">>),
      Str(<<"\t","S","T","U","D","E","N","T","5","\n"," ">>),
      Str(<<"X","Y","Z">>),
      Str(<<" ">>) }

SeqsUpTo(S, n) == UNION { [1..k -> S] : k \in 0..n }

Invoice(id, cust, country, membership, coupon, items) ==
    [invoice_id |-> id, customer_id |-> cust, country |-> country,
     membership |-> membership, coupon |-> coupon, items |-> items]

\* Invoices for the calculation pipeline: every country, membership and
\* coupon over the valid items and one defective item.
CalcInvoices ==
    { Invoice("INV-1", "CUST-1", c, m, k, its) :
        c \in Countries, m \in Memberships, k \in Coupons,
        its \in SeqsUpTo(ValidItems \cup {LineItem("Q", "book", 100, 0, FALSE)},
                         MaxItems) }

\* Invoices for validation: every combination of defects.
DefectInvoices ==
    { Invoice(id, cust, "TH", "", k, its) :
        id \in {"", "INV-1"}, cust \in {"", "CUST-1"},
        k \in {NoCoupon, Str(<<"X","Y","Z">>)},
        its \in SeqsUpTo(DefectItems \cup
                         {LineItem("A", "book", 10000, 2, TRUE),
                          LineItem("L", "electronics", 1000100, 1, FALSE)},
                         MaxItems) }

InitLocals ==
    /\ pc = "start"
    /\ problems = <<>>
    /\ error = NoError
    /\ subtotal = NotComputed
    /\ fragile_fee = NotComputed
    /\ shipping = NotComputed
    /\ discount = NotComputed
    /\ warnings = <<>>
    /\ tax = NotComputed
    /\ total = NotComputed
    /\ clamped = FALSE
    /\ result = NoResult

Init ==
    /\ inv \in CalcInvoices \cup {NoInvoice}
    /\ InitLocals

InitValidation ==
    /\ inv \in DefectInvoices \cup {NoInvoice}
    /\ InitLocals

-----------------------------------------------------------------------------
\* _validate

\* the four item checks chained with "elif": the first defect hides the rest
ItemProblemsFirstOnly(item) ==
    IF item.sku = "" THEN <<"Item sku is missing">>
    ELSE IF item.qty <= 0 THEN <<"Invalid qty for " \o item.sku>>
    ELSE IF Less(item.unit_price, Whole(0))
         THEN <<"Invalid price for " \o item.sku>>
    ELSE IF item.category \notin VALID_CATEGORIES
         THEN <<"Unknown category for " \o item.sku>>
    ELSE <<>>

\* the qty check written "qty < 0": a quantity of 0 passes
ItemProblemsZeroQtyPasses(item) ==
    (IF item.sku = "" THEN <<"Item sku is missing">> ELSE <<>>)
    \o (IF item.qty < 0 THEN <<"Invalid qty for " \o item.sku>> ELSE <<>>)
    \o (IF Less(item.unit_price, Whole(0))
        THEN <<"Invalid price for " \o item.sku>> ELSE <<>>)
    \o (IF item.category \notin VALID_CATEGORIES
        THEN <<"Unknown category for " \o item.sku>> ELSE <<>>)

ItemProblems(item) ==
    (IF item.sku = "" THEN <<"Item sku is missing">> ELSE <<>>)
    \o (IF item.qty <= 0 THEN <<"Invalid qty for " \o item.sku>> ELSE <<>>)
    \o (IF Less(item.unit_price, Whole(0))
        THEN <<"Invalid price for " \o item.sku>> ELSE <<>>)
    \o (IF item.category \notin VALID_CATEGORIES
        THEN <<"Unknown category for " \o item.sku>> ELSE <<>>)

RECURSIVE AllItemProblems(_)
AllItemProblems(items) ==
    IF items = <<>> THEN <<>>
    ELSE ItemProblems(Head(items)) \o AllItemProblems(Tail(items))

ValidateProblems(i) ==
    (IF i.invoice_id = "" THEN <<"Missing invoice_id">> ELSE <<>>)
    \o (IF i.customer_id = "" THEN <<"Missing customer_id">> ELSE <<>>)
    \o (IF i.items = <<>> THEN <<"Invoice must contain items">> ELSE <<>>)
    \o AllItemProblems(i.items)

Validate ==
    /\ pc = "start"
    /\ IF inv = NoInvoice
       THEN /\ error' = "Invoice is missing"
            /\ pc' = "failed"
            /\ UNCHANGED problems
       ELSE /\ problems' = ValidateProblems(inv)
            /\ IF problems' # <<>>
               THEN error' = Join(problems') /\ pc' = "failed"
               ELSE error' = NoError /\ pc' = "validated"
    /\ UNCHANGED <<inv, subtotal, fragile_fee, shipping, discount, warnings,
                   tax, total, clamped, result>>

-----------------------------------------------------------------------------
\* _calculate_subtotal

RECURSIVE SumPrices(_)
SumPrices(items) ==
    IF items = <<>> THEN Whole(0)
    ELSE Add(Times(Head(items).unit_price, Head(items).qty),
              SumPrices(Tail(items)))

\* the fragile fee charged per fragile line instead of per unit
RECURSIVE SumFragilePerLine(_)
SumFragilePerLine(items) ==
    IF items = <<>> THEN Whole(0)
    ELSE IF Head(items).fragile
         THEN Add(Whole(5), SumFragilePerLine(Tail(items)))
         ELSE SumFragilePerLine(Tail(items))

RECURSIVE SumFragile(_)
SumFragile(items) ==
    IF items = <<>> THEN Whole(0)
    ELSE IF Head(items).fragile
         THEN Add(Times(Whole(5), Head(items).qty),
                   SumFragile(Tail(items)))
         ELSE SumFragile(Tail(items))

CalculateSubtotal ==
    /\ pc = "validated"
    /\ subtotal' = SumPrices(inv.items)
    /\ fragile_fee' = SumFragile(inv.items)
    /\ pc' = "subtotal"
    /\ UNCHANGED <<inv, problems, error, shipping, discount, warnings, tax,
                   total, clamped, result>>

\* _calculate_shipping
CalculateShipping ==
    /\ pc = "subtotal"
    /\ shipping' = SHIPPING_RULES(inv.country, subtotal)
    /\ pc' = "shipping"
    /\ UNCHANGED <<inv, problems, error, subtotal, fragile_fee, discount,
                   warnings, tax, total, clamped, result>>

-----------------------------------------------------------------------------
\* _calculate_discount

\* "if" in place of "elif": the flat bonus also goes to members
MembershipPartBoth(membership, sub) ==
    Add(IF membership \in MembershipTiers
        THEN Percent(sub, MEMBERSHIP_DISCOUNT(membership))
        ELSE Whole(0),
        IF Less(Whole(3000), sub) THEN Whole(20) ELSE Whole(0))

\* the high-value test inverted to "subtotal < 3000"
MembershipPartInverted(membership, sub) ==
    IF membership \in MembershipTiers
    THEN Percent(sub, MEMBERSHIP_DISCOUNT(membership))
    ELSE IF Less(sub, Whole(3000)) THEN Whole(20) ELSE Whole(0)

MembershipPart(membership, sub) ==
    IF membership \in MembershipTiers
    THEN Percent(sub, MEMBERSHIP_DISCOUNT(membership))
    ELSE IF Less(Whole(3000), sub) THEN Whole(20) ELSE Whole(0)

\* "if inv.coupon:" is false for None and for the empty string
CouponPresent(coupon) == coupon # NoCoupon /\ coupon.chars # <<>>

CouponPart(coupon, sub) ==
    IF CouponPresent(coupon) /\ Strip(coupon.chars) \in CouponCodes
    THEN Percent(sub, COUPON_RATE(Strip(coupon.chars)))
    ELSE Whole(0)

\* the warning raised for every coupon that earns nothing, absent ones too
CouponWarningsAlways(coupon) ==
    IF CouponPresent(coupon) /\ Strip(coupon.chars) \in CouponCodes
    THEN <<>>
    ELSE <<"Unknown coupon">>

CouponWarnings(coupon) ==
    IF CouponPresent(coupon) /\ Strip(coupon.chars) \notin CouponCodes
    THEN <<"Unknown coupon">>
    ELSE <<>>

CalculateDiscountValue(i, sub) ==
    Add(Add(Whole(0), MembershipPart(i.membership, sub)),
         CouponPart(i.coupon, sub))

CalculateDiscount ==
    /\ pc = "shipping"
    /\ discount' = CalculateDiscountValue(inv, subtotal)
    /\ warnings' = CouponWarnings(inv.coupon)
    /\ pc' = "discount"
    /\ UNCHANGED <<inv, problems, error, subtotal, fragile_fee, shipping,
                   tax, total, clamped, result>>

\* _calculate_tax, called on subtotal - discount
CalculateTaxValue(country, taxable_amount) ==
    Percent(taxable_amount, TAX_RATE(country))

CalculateTax ==
    /\ pc = "discount"
    /\ tax' = CalculateTaxValue(inv.country, Sub(subtotal, discount))
    /\ pc' = "tax"
    /\ UNCHANGED <<inv, problems, error, subtotal, fragile_fee, shipping,
                   discount, warnings, total, clamped, result>>

-----------------------------------------------------------------------------
\* compute_total, from the total to the return

RawTotal(sub, ship, fee, tx, disc) ==
    Sub(Add(Add(Add(sub, ship), fee), tx), disc)

Floor0(t) == IF Less(t, Whole(0)) THEN Whole(0) ELSE t

\* the advisory threshold written ">=" instead of ">"
UpgradeWarningsInclusive(i, sub) ==
    IF ~Less(sub, Whole(10000)) /\ i.membership \notin MembershipTiers
    THEN <<"Consider membership upgrade">>
    ELSE <<>>

UpgradeWarnings(i, sub) ==
    IF Less(Whole(10000), sub) /\ i.membership \notin MembershipTiers
    THEN <<"Consider membership upgrade">>
    ELSE <<>>

\* the total taken without the subtotal term and without the floor
AssembleTotalUnfloored ==
    /\ pc = "tax"
    /\ clamped' = FALSE
    /\ total' = Sub(Add(Add(shipping, fragile_fee), tax), discount)
    /\ warnings' = warnings \o UpgradeWarnings(inv, subtotal)
    /\ result' = <<total', warnings'>>
    /\ pc' = "returned"
    /\ UNCHANGED <<inv, problems, error, subtotal, fragile_fee, shipping,
                   discount, tax>>

AssembleTotal ==
    /\ pc = "tax"
    /\ LET raw == RawTotal(subtotal, shipping, fragile_fee, tax, discount)
       IN  /\ clamped' = Less(raw, Whole(0))
           /\ total' = Floor0(raw)
    /\ warnings' = warnings \o UpgradeWarnings(inv, subtotal)
    /\ result' = <<total', warnings'>>
    /\ pc' = "returned"
    /\ UNCHANGED <<inv, problems, error, subtotal, fragile_fee, shipping,
                   discount, tax>>

Next ==
    \/ Validate
    \/ CalculateSubtotal
    \/ CalculateShipping
    \/ CalculateDiscount
    \/ CalculateTax
    \/ AssembleTotal

Spec == Init /\ [][Next]_vars

SpecValidation == InitValidation /\ [][Next]_vars

-----------------------------------------------------------------------------
\* Vocabulary of the properties.

Range(f) == { f[k] : k \in DOMAIN f }

Leq(a, b) == ~Less(b, a)

Failed   == pc = "failed"
Returned == pc = "returned"

\* positions at which the named local has been assigned
HasSubtotal == pc \in {"subtotal", "shipping", "discount", "tax", "returned"}
HasShipping == pc \in {"shipping", "discount", "tax", "returned"}
HasDiscount == pc \in {"discount", "tax", "returned"}
HasTax      == pc \in {"tax", "returned"}

Member == inv.membership = "gold" \/ inv.membership = "platinum"

\* the defects of item k of the invoice, as <<k, kind, message entry>>
DefectsOfItem(k) ==
    LET it == inv.items[k]
    IN  { d \in { <<k, "sku",      "Item sku is missing">>,
                  <<k, "qty",      "Invalid qty for " \o it.sku>>,
                  <<k, "price",    "Invalid price for " \o it.sku>>,
                  <<k, "category", "Unknown category for " \o it.sku>> } :
            \/ d[2] = "sku"      /\ it.sku = ""
            \/ d[2] = "qty"      /\ it.qty <= 0
            \/ d[2] = "price"    /\ it.unit_price[1] < 0
            \/ d[2] = "category" /\ it.category \notin
                                      {"book", "food", "electronics", "other"} }

\* the defects of a present invoice
Defects ==
    { d \in { <<0, "invoice_id",  "Missing invoice_id">>,
              <<0, "customer_id", "Missing customer_id">>,
              <<0, "items",       "Invoice must contain items">> } :
        \/ d[2] = "invoice_id"  /\ inv.invoice_id = ""
        \/ d[2] = "customer_id" /\ inv.customer_id = ""
        \/ d[2] = "items"       /\ Len(inv.items) = 0 }
    \cup UNION { DefectsOfItem(k) : k \in 1..Len(inv.items) }

HasDefect == inv = NoInvoice \/ Defects # {}

\* C1: validation is exhaustive.  When compute_total fails on a present
\* invoice, the list of problems has exactly one entry per defect of the
\* invoice and of each of its items, every defect's entry is in it, and the
\* error message is that list joined by "; ".
C1_ValidationExhaustive ==
    (Failed /\ inv # NoInvoice) =>
        /\ \A d \in Defects : d[3] \in Range(problems)
        /\ Len(problems) = Cardinality(Defects)
        /\ Range(problems) = { d[3] : d \in Defects }
        /\ error = Join(problems)
        /\ error # ""

\* A failure reporting defects of two items, the second item's after the
\* first item's.
C1_Witness ==
    /\ Failed
    /\ inv # NoInvoice
    /\ Len(inv.items) = 2
    /\ Cardinality(DefectsOfItem(1)) >= 2
    /\ Cardinality(DefectsOfItem(2)) >= 2
    /\ inv.invoice_id = ""
    /\ Len(problems) >= 5

\* C2: compute_total fails exactly on the invoices with a defect, fails
\* before anything is computed and without a result, and returns a pair
\* <<total, warnings>> for every other invoice.
C2_FailsIffDefect ==
    /\ Failed =>
         /\ HasDefect
         /\ error # NoError
         /\ subtotal = NotComputed /\ fragile_fee = NotComputed
         /\ shipping = NotComputed /\ discount = NotComputed
         /\ tax = NotComputed /\ total = NotComputed
         /\ warnings = <<>>
         /\ result = NoResult
    /\ pc \notin {"start", "failed"} => ~HasDefect /\ error = NoError
    /\ pc \notin {"failed", "returned"} => ENABLED Next
    /\ (pc = "start" /\ ~HasDefect) => ENABLED (Validate /\ pc' = "validated")
    /\ Returned => Len(result) = 2 /\ result = <<total, warnings>>
    /\ ~Returned => result = NoResult

\* An invoice without items fails.
C2_Witness ==
    /\ Failed
    /\ inv # NoInvoice
    /\ inv.items = <<>>
    /\ inv.invoice_id # "" /\ inv.customer_id # ""
    /\ result = NoResult

\* C3: the returned total is never negative, and it is exactly 0 whenever
\* the floor is applied.
C3_TotalNonNegative ==
    Returned =>
        /\ Leq(Whole(0), total)
        /\ result[1] = total
        /\ clamped => total = Whole(0)

\* A returned total under the largest discount, 5% + 20% of the subtotal.
C3_Witness ==
    /\ Returned
    /\ inv.membership = "platinum"
    /\ inv.coupon = Str(<<"V","I","P","2","0"," ">>)
    /\ Less(Whole(10000), subtotal)
    /\ Less(Whole(0), total)

\* C4 as stated: the lower-case coupon "vip20 " on subtotal 1000 without a
\* membership gives discount 200 and no warning.
C4_LowerCaseCouponAccepted ==
    ( /\ HasDiscount
      /\ inv.coupon = Str(<<"v","i","p","2","0"," ">>)
      /\ subtotal = Whole(1000)
      /\ ~Member )
    => /\ discount = Whole(200)
       /\ "Unknown coupon" \notin Range(warnings)

\* C4 amended: the coupon is trimmed and then matched case-sensitively.
\* "VIP20 " on subtotal 1000 without a membership gives discount 200 and no
\* warning; "vip20 " gives discount 0 and the warning "Unknown coupon".
C4_CouponTrimmedCaseSensitive ==
    ( /\ HasDiscount
      /\ subtotal = Whole(1000)
      /\ ~Member )
    => /\ inv.coupon = Str(<<"V","I","P","2","0"," ">>) =>
            /\ discount = Whole(200)
            /\ "Unknown coupon" \notin Range(warnings)
       /\ inv.coupon = Str(<<"v","i","p","2","0"," ">>) =>
            /\ discount = Whole(0)
            /\ "Unknown coupon" \in Range(warnings)

C4_Witness ==
    /\ pc = "discount"
    /\ inv.coupon = Str(<<"V","I","P","2","0"," ">>)
    /\ subtotal = Whole(1000)
    /\ inv.membership = ""
    /\ discount = Whole(200)
    /\ warnings = <<>>

\* the membership / high-value component the specification describes
MemberComponent ==
    IF inv.membership = "gold" THEN Percent(subtotal, 3)
    ELSE IF inv.membership = "platinum" THEN Percent(subtotal, 5)
    ELSE IF Leq(subtotal, Whole(3000)) THEN Whole(0)
    ELSE Whole(20)

\* the percentage each coupon of Coupons earns after trimming, 0 if none
CouponPercent ==
    CASE inv.coupon = Str(<<"V","I","P","2","0"," ">>)                    -> 20
      [] inv.coupon = Str(<<"W","E","L","C","O","M","E","1","0">>)         -> 10
      [] inv.coupon = Str(<<"\t","S","T","U","D","E","N","T","5","\n"," ">>) -> 5
      [] OTHER -> 0

CouponAbsentOrEmpty == inv.coupon = NoCoupon \/ inv.coupon = Str(<<>>)

\* C5: the membership discount and the flat high-value bonus exclude each
\* other.  Without a coupon contribution the discount is 3% (gold) or 5%
\* (platinum) of the subtotal, whatever the subtotal, and otherwise 20 above
\* 3000 and 0 up to 3000; with a recognised coupon the discount exceeds the
\* coupon's share by exactly that component.
C5_MembershipExcludesFlatBonus ==
    HasDiscount =>
        /\ Sub(discount, Percent(subtotal, CouponPercent)) = MemberComponent
        /\ (inv.membership = "platinum" /\ subtotal = Whole(4000)
              /\ inv.coupon = NoCoupon) => discount = Whole(200)
        /\ (inv.membership = "" /\ subtotal = Whole(3500)
              /\ inv.coupon = NoCoupon) => discount = Whole(20)
        /\ (inv.membership = "gold" /\ CouponPercent = 0
              /\ Less(Whole(3000), subtotal)) =>
                 Times(discount, 100) = Times(subtotal, 3)

\* platinum, subtotal 4000, no coupon: discount 200, not 220
C5_Witness ==
    /\ Returned
    /\ inv.membership = "platinum"
    /\ subtotal = Whole(4000)
    /\ inv.coupon = NoCoupon
    /\ discount = Whole(200)

\* C6: shipping is the country's step function of the subtotal with strict
\* thresholds, the DEFAULT rule serving every country outside the table.
C6_ShippingSteps ==
    HasShipping =>
        /\ inv.country = "TH" =>
             shipping = IF Leq(Whole(500), subtotal) THEN Whole(0) ELSE Whole(60)
        /\ inv.country = "JP" =>
             shipping = IF Leq(Whole(4000), subtotal) THEN Whole(0) ELSE Whole(600)
        /\ inv.country = "US" =>
             /\ Less(subtotal, Whole(100)) => shipping = Whole(15)
             /\ (Leq(Whole(100), subtotal) /\ Less(subtotal, Whole(300)))
                   => shipping = Whole(8)
             /\ Leq(Whole(300), subtotal) => shipping = Whole(0)
             /\ subtotal = Cents(9999)  => shipping = Whole(15)
             /\ subtotal = Cents(10000) => shipping = Whole(8)
             /\ subtotal = Cents(29999) => shipping = Whole(8)
             /\ subtotal = Cents(30000) => shipping = Whole(0)
        /\ inv.country \notin {"TH", "JP", "US"} =>
             shipping = IF Leq(Whole(200), subtotal) THEN Whole(0) ELSE Whole(25)

\* US at the boundary 100
C6_Witness ==
    /\ HasShipping
    /\ inv.country = "US"
    /\ subtotal = Whole(100)
    /\ shipping = Whole(8)

\* C7: an unrecognised coupon adds nothing and warns "Unknown coupon" once;
\* a recognised one adds its percentage of the subtotal and does not warn; an
\* absent or empty one does neither.  The coupon's share is added to the
\* membership / high-value component whatever that component is.
C7_CouponComponent ==
    pc = "discount" =>
        /\ CouponAbsentOrEmpty =>
             discount = MemberComponent /\ warnings = <<>>
        /\ CouponPercent # 0 =>
             /\ discount = Add(MemberComponent, Percent(subtotal, CouponPercent))
             /\ warnings = <<>>
        /\ (~CouponAbsentOrEmpty /\ CouponPercent = 0) =>
             /\ discount = MemberComponent
             /\ warnings = <<"Unknown coupon">>

\* "XYZ" on a gold member's invoice
C7_Witness ==
    /\ pc = "discount"
    /\ inv.coupon = Str(<<"X","Y","Z">>)
    /\ inv.membership = "gold"
    /\ Less(Whole(0), discount)
    /\ warnings = <<"Unknown coupon">>

\* C8: the returned warnings contain "Consider membership upgrade" exactly
\* when subtotal > 10000 without a recognised membership, "Unknown coupon"
\* comes first when both are present, and no other list is returned.
C8_WarningsOrder ==
    Returned =>
        /\ "Consider membership upgrade" \in Range(result[2])
             <=> (Less(Whole(10000), subtotal) /\ ~Member)
        /\ result[2] \in { <<>>,
                           <<"Unknown coupon">>,
                           <<"Consider membership upgrade">>,
                           <<"Unknown coupon", "Consider membership upgrade">> }
        /\ "Unknown coupon" \in Range(result[2])
             <=> (~CouponAbsentOrEmpty /\ CouponPercent = 0)

C8_Witness ==
    /\ Returned
    /\ subtotal = Cents(1000100)
    /\ inv.membership = ""
    /\ result[2] = <<"Unknown coupon", "Consider membership upgrade">>

\* the sums of the specification, taken over the item positions
RECURSIVE SumUpTo(_, _)
SumUpTo(k, onlyFragile) ==
    IF k = 0 THEN Whole(0)
    ELSE LET it == inv.items[k]
         IN  Add(SumUpTo(k - 1, onlyFragile),
                 IF onlyFragile
                 THEN (IF it.fragile THEN Whole(5 * it.qty) ELSE Whole(0))
                 ELSE Times(it.unit_price, it.qty))

RatePercent ==
    CASE inv.country = "TH" -> 7
      [] inv.country = "JP" -> 10
      [] inv.country = "US" -> 8
      [] OTHER              -> 5

\* C9: total = subtotal + shipping + fragile_fee + tax - discount, floored
\* at 0, with subtotal the sum of unit_price * qty, fragile_fee 5 per unit of
\* fragile item and tax = (subtotal - discount) * rate; the specification's
\* example gives 200, 10, 60, 0, 14 and total 284 without warnings.
C9_TotalFormula ==
    Returned =>
        /\ subtotal = SumUpTo(Len(inv.items), FALSE)
        /\ fragile_fee = SumUpTo(Len(inv.items), TRUE)
        /\ tax = Percent(Sub(subtotal, discount), RatePercent)
        /\ LET sum == Sub(Add(Add(Add(subtotal, shipping), fragile_fee), tax),
                          discount)
           IN  total = IF Less(sum, Whole(0)) THEN Whole(0) ELSE sum
        /\ ( /\ inv.items = <<LineItem("A", "book", 10000, 2, TRUE)>>
             /\ inv.country = "TH"
             /\ inv.membership = ""
             /\ inv.coupon = NoCoupon )
           => /\ subtotal = Whole(200)
              /\ fragile_fee = Whole(10)
              /\ shipping = Whole(60)
              /\ discount = Whole(0)
              /\ tax = Whole(14)
              /\ result = <<Whole(284), <<>>>>

C9_Witness ==
    /\ Returned
    /\ inv.items = <<LineItem("A", "book", 10000, 2, TRUE)>>
    /\ inv.country = "TH"
    /\ inv.membership = ""
    /\ inv.coupon = NoCoupon
    /\ total = Whole(284)

\* C10: on a validated invoice 0 <= discount <= subtotal, so the taxable
\* amount and the tax are not negative, the floor is never applied, and the
\* returned total is the plain sum.
C10_DiscountWithinSubtotal ==
    /\ HasDiscount =>
         /\ Leq(Whole(0), discount)
         /\ Leq(discount, subtotal)
         /\ Leq(Whole(0), Sub(subtotal, discount))
    /\ HasTax => Leq(Whole(0), tax)
    /\ ~clamped
    /\ Returned =>
         total = Sub(Add(Add(Add(subtotal, shipping), fragile_fee), tax),
                     discount)

\* the flat bonus and the 20% coupon together, just above 3000
C10_Witness ==
    /\ Returned
    /\ ~Member
    /\ subtotal = Whole(3500)
    /\ inv.coupon = Str(<<"V","I","P","2","0"," ">>)
    /\ discount = Whole(720)
    /\ ~clamped

====
